---- MODULE Spec2Model ----
(***************************************************************************)
(* Model of the workflow execution panel (ExecutionPanel) of the           *)
(* ai-orchestrator frontend: the run button, the WebSocket it opens and    *)
(* the four callbacks bound to it, plus the workflow selection of the      *)
(* hosting page.  The browser's WebSocket objects are part of the state:   *)
(* each has a readyState and the list of frames the panel sent on it.      *)
(***************************************************************************)
EXTENDS Naturals, Sequences, FiniteSets, TLC

\* ---- bounds of the model ------------------------------------------------
\* WebSocket objects created over one behaviour (runs started).
MaxRuns == 2
\* inbound frames dispatched to onmessage over one behaviour (all sockets).
MaxMsgs == 3

\* ---- values -------------------------------------------------------------
\* selectedWorkflowId === null
NoWorkflow == 0
WorkflowIds == {7}
\* wsRef.current === null
NoSocket == 0
Sockets == 1..MaxRuns

StatusMessages == {"step 1 running"}
ErrorMessages == {"rate limited"}
\* (step, result) of the result frames: out of step order, and one empty
StepOutputs == {<<1, "R1">>, <<2, "R2">>, <<2, "">>}

\* the JSON objects the engine may put on the wire
StatusFrames == {[type |-> "status", message |-> m] : m \in StatusMessages}
ResultFrames ==
    {[type |-> "result", step |-> o[1], prompt |-> "p", result |-> o[2]] :
        o \in StepOutputs}
NextStepFrames == {[type |-> "nextStep"]}
ErrorFrames == {[type |-> "error", message |-> m] : m \in ErrorMessages}
UnknownFrames == {[type |-> "heartbeat"]}
JsonObjects ==
    StatusFrames \cup ResultFrames \cup NextStepFrames \cup ErrorFrames
        \cup UnknownFrames

\* event.data: the text of a frame, either the serialisation of an object
\* or text that is no JSON at all
WireFrames ==
    {[wellFormed |-> TRUE, value |-> o] : o \in JsonObjects}
        \cup {[wellFormed |-> FALSE, value |-> [text |-> "<html>502</html>"]]}

\* ---- state --------------------------------------------------------------
VARIABLES
    selectedWorkflowId,   \* Home: useState<number | null>(null)
    isWorkflowRunning,    \* ExecutionPanel: useState(false)
    workflowResults,      \* ExecutionPanel: useState<WorkflowResult[]>([])
    currentStatus,        \* ExecutionPanel: useState<string>("")
    lastStepResultRef,    \* useRef<string>("")
    wsRef,                \* useRef<WebSocket | null>(null)
    readyState,           \* per WebSocket object: its readyState
    sent,                 \* per WebSocket object: frames passed to ws.send
    pendingClose,         \* socket whose error event fired and whose close
                          \* event is due in the same browser task
    uncaught,             \* an exception left a callback uncaught
    unloaded,             \* the beforeunload listener has run
    \* history of the behaviour, read by the properties only
    lastEvent,            \* the callback that ran in the last step
    runResults,           \* result frames dispatched since the last run start
    chanLog,              \* per socket: what it has delivered so far
    msgCount              \* frames dispatched so far

sessionVars ==
    <<isWorkflowRunning, workflowResults, currentStatus, lastStepResultRef,
      wsRef>>
vars ==
    <<selectedWorkflowId, isWorkflowRunning, workflowResults, currentStatus,
      lastStepResultRef, wsRef, readyState, sent, pendingClose, uncaught,
      unloaded, lastEvent, runResults, chanLog, msgCount>>

NoFrame == [wellFormed |-> FALSE, value |-> [text |-> ""]]
Event(kind, c, frame) == [kind |-> kind, chan |-> c, frame |-> frame]
EmptyLog ==
    [errorEv |-> FALSE, transportErr |-> FALSE, closeEv |-> FALSE,
     nextSteps |-> 0, results |-> 0]

\* sockets constructed so far; the next one constructed
Created == {c \in Sockets : readyState[c] # "NONE"}
NewSocket == Cardinality(Created) + 1

Init ==
    /\ selectedWorkflowId = NoWorkflow
    /\ isWorkflowRunning = FALSE
    /\ workflowResults = <<>>
    /\ currentStatus = ""
    /\ lastStepResultRef = ""
    /\ wsRef = NoSocket
    /\ readyState = [c \in Sockets |-> "NONE"]
    /\ sent = [c \in Sockets |-> <<>>]
    /\ pendingClose = NoSocket
    /\ uncaught = FALSE
    /\ unloaded = FALSE
    /\ lastEvent = Event("init", NoSocket, NoFrame)
    /\ runResults = <<>>
    /\ chanLog = [c \in Sockets |-> EmptyLog]
    /\ msgCount = 0

\* ---- pure pieces of the callbacks ----------------------------------------
\* JSON.parse(event.data): the object, or a SyntaxError
JSONParse(raw) ==
    IF raw.wellFormed THEN [ok |-> TRUE, data |-> raw.value]
    ELSE [ok |-> FALSE, data |-> [name |-> "SyntaxError"]]

\* JSON.stringify({type: 'stepInput', content: ...}) as received by the engine
StepInput(content) == [type |-> "stepInput", content |-> content]

\* the guard written as typeof ... === 'string': true of the empty string too
TruthyAsDefined(s) == s \in STRING

\* if (lastStepResultRef.current): a string is truthy unless it is empty
Truthy(s) == s # ""

\* the spread written the other way round: [data, ...prevResults]
PrependResult(prevResults, data) == <<data>> \o prevResults

\* [...prevResults, data]
AppendResult(prevResults, data) == Append(prevResults, data)

\* `Error: ${data.message}`
ErrorStatus(message) == "Error: " \o message

ConnectingStatus == "Connecting to workflow engine..."
OpenedStatus == "Connection established. Starting workflow..."
FinishedStatus == "Workflow finished. Connection closed."
ConnectionErrorStatus ==
    "Connection error. Please check if the backend is accessible."

\* the Run button: disabled={!selectedWorkflowId || isWorkflowRunning}
RunEnabled == selectedWorkflowId # NoWorkflow /\ ~isWorkflowRunning

\* the browser runs one task at a time: nothing else runs between the error
\* event of a failed socket and its close event
Idle == pendingClose = NoSocket

\* ---- the hosting page ------------------------------------------------------
\* Home.handleSelectWorkflow, called by a click on a workflow card
SelectWorkflow(id) ==
    /\ Idle
    /\ selectedWorkflowId # id
    /\ selectedWorkflowId' = id
    /\ lastEvent' = Event("select", NoSocket, NoFrame)
    /\ UNCHANGED <<isWorkflowRunning, workflowResults, currentStatus,
                   lastStepResultRef, wsRef, readyState, sent, pendingClose,
                   uncaught, unloaded, runResults, chanLog, msgCount>>

\* ---- ExecutionPanel.handleRunWorkflow -------------------------------------
\* a click on the enabled Run button: resets the panel and opens a socket
RunWorkflow ==
    /\ Idle
    /\ RunEnabled
    /\ NewSocket \in Sockets
    /\ isWorkflowRunning' = TRUE
    /\ workflowResults' = <<>>
    /\ currentStatus' = ConnectingStatus
    /\ lastStepResultRef' = ""
    /\ readyState' = [readyState EXCEPT ![NewSocket] = "CONNECTING"]
    /\ wsRef' = NewSocket
    /\ runResults' = <<>>
    /\ lastEvent' = Event("run", NewSocket, NoFrame)
    /\ UNCHANGED <<selectedWorkflowId, sent, pendingClose, uncaught, unloaded,
                   chanLog, msgCount>>

\* ws.onopen of socket c
OnOpen(c) ==
    /\ Idle
    /\ readyState[c] = "CONNECTING"
    /\ readyState' = [readyState EXCEPT ![c] = "OPEN"]
    /\ currentStatus' = OpenedStatus
    /\ lastEvent' = Event("open", c, NoFrame)
    /\ UNCHANGED <<selectedWorkflowId, isWorkflowRunning, workflowResults,
                   lastStepResultRef, wsRef, sent, pendingClose, uncaught,
                   unloaded, runResults, chanLog, msgCount>>

\* the status branch showing the discriminator instead of the message
StatusBranchShowsType(c, data) ==
    /\ currentStatus' = data.type
    /\ UNCHANGED <<isWorkflowRunning, workflowResults, lastStepResultRef,
                   wsRef, sent, uncaught, runResults, chanLog>>

\* ws.onmessage of socket c, branch data.type === 'status'
StatusBranch(c, data) ==
    /\ currentStatus' = data.message
    /\ UNCHANGED <<isWorkflowRunning, workflowResults, lastStepResultRef,
                   wsRef, sent, uncaught, runResults, chanLog>>

\* branch data.type === 'result'
ResultBranch(c, data) ==
    /\ lastStepResultRef' = data.result
    /\ workflowResults' = AppendResult(workflowResults, data)
    /\ runResults' = Append(runResults, data)
    /\ chanLog' = [chanLog EXCEPT ![c].results = @ + 1]
    /\ UNCHANGED <<isWorkflowRunning, currentStatus, wsRef, sent, uncaught>>

\* branch data.type === 'nextStep'; ws is the socket the callback is bound to
NextStepBranch(c, data) ==
    /\ IF Truthy(lastStepResultRef)
       THEN sent' = [sent EXCEPT ![c] = Append(@, StepInput(lastStepResultRef))]
       ELSE sent' = sent
    /\ chanLog' = [chanLog EXCEPT ![c].nextSteps = @ + 1]
    /\ UNCHANGED <<isWorkflowRunning, workflowResults, currentStatus,
                   lastStepResultRef, wsRef, uncaught, runResults>>

\* the error branch without setIsWorkflowRunning(false)
ErrorBranchKeepsRunning(c, data) ==
    /\ currentStatus' = ErrorStatus(data.message)
    /\ chanLog' = [chanLog EXCEPT ![c].errorEv = TRUE]
    /\ UNCHANGED <<isWorkflowRunning, workflowResults, lastStepResultRef,
                   wsRef, sent, uncaught, runResults>>

\* branch data.type === 'error'
ErrorBranch(c, data) ==
    /\ currentStatus' = ErrorStatus(data.message)
    /\ isWorkflowRunning' = FALSE
    /\ chanLog' = [chanLog EXCEPT ![c].errorEv = TRUE]
    /\ UNCHANGED <<workflowResults, lastStepResultRef, wsRef, sent, uncaught,
                   runResults>>

\* a final else that treats a type it does not know as a failure
UnknownTypeAsError(c, data) ==
    /\ currentStatus' = ConnectionErrorStatus
    /\ isWorkflowRunning' = FALSE
    /\ UNCHANGED <<workflowResults, lastStepResultRef, wsRef, sent, uncaught,
                   runResults, chanLog>>

\* no branch matches data.type
NoBranch(c, data) ==
    UNCHANGED <<isWorkflowRunning, workflowResults, currentStatus,
                lastStepResultRef, wsRef, sent, uncaught, runResults, chanLog>>

\* JSON.parse threw: the callback is left before it touches anything and the
\* SyntaxError reaches the browser uncaught
ParseFailure(c) ==
    /\ uncaught' = TRUE
    /\ UNCHANGED <<isWorkflowRunning, workflowResults, currentStatus,
                   lastStepResultRef, wsRef, sent, runResults, chanLog>>

\* ws.onmessage of socket c with event.data = raw; the browser dispatches
\* message events of a socket only while it is OPEN
OnMessage(c, raw) ==
    /\ Idle
    /\ readyState[c] = "OPEN"
    /\ msgCount < MaxMsgs
    /\ msgCount' = msgCount + 1
    /\ lastEvent' = Event("message", c, raw)
    /\ LET parsed == JSONParse(raw)
           data == parsed.data
       IN  IF ~parsed.ok THEN ParseFailure(c)
           ELSE IF data.type = "status" THEN StatusBranch(c, data)
           ELSE IF data.type = "result" THEN ResultBranch(c, data)
           ELSE IF data.type = "nextStep" THEN NextStepBranch(c, data)
           ELSE IF data.type = "error" THEN ErrorBranch(c, data)
           ELSE NoBranch(c, data)
    /\ UNCHANGED <<selectedWorkflowId, readyState, pendingClose, unloaded>>

\* ws.onclose of socket c: the browser fires one close event per socket, when
\* the connection ends or right after the error event of a failed connection
OnClose(c) ==
    /\ Idle \/ pendingClose = c
    /\ readyState[c] # "NONE"
    /\ ~chanLog[c].closeEv
    /\ readyState' = [readyState EXCEPT ![c] = "CLOSED"]
    /\ pendingClose' = NoSocket
    /\ currentStatus' = FinishedStatus
    /\ isWorkflowRunning' = FALSE
    /\ wsRef' = NoSocket
    /\ chanLog' = [chanLog EXCEPT ![c].closeEv = TRUE]
    /\ lastEvent' = Event("close", c, NoFrame)
    /\ UNCHANGED <<selectedWorkflowId, workflowResults, lastStepResultRef,
                   sent, uncaught, unloaded, runResults, msgCount>>

\* onerror without setIsWorkflowRunning(false)
OnErrorKeepsRunning(c) ==
    /\ Idle
    /\ readyState[c] \in {"CONNECTING", "OPEN"}
    /\ readyState' = [readyState EXCEPT ![c] = "CLOSED"]
    /\ pendingClose' = c
    /\ currentStatus' = ConnectionErrorStatus
    /\ wsRef' = NoSocket
    /\ chanLog' = [chanLog EXCEPT ![c].transportErr = TRUE]
    /\ lastEvent' = Event("error", c, NoFrame)
    /\ UNCHANGED <<selectedWorkflowId, isWorkflowRunning, workflowResults,
                   lastStepResultRef, sent, uncaught, unloaded, runResults,
                   msgCount>>

\* ws.onerror of socket c: the connection could not be made or was lost; the
\* socket is CLOSED when the event fires and its close event follows
OnError(c) ==
    /\ Idle
    /\ readyState[c] \in {"CONNECTING", "OPEN"}
    /\ readyState' = [readyState EXCEPT ![c] = "CLOSED"]
    /\ pendingClose' = c
    /\ currentStatus' = ConnectionErrorStatus
    /\ isWorkflowRunning' = FALSE
    /\ wsRef' = NoSocket
    /\ chanLog' = [chanLog EXCEPT ![c].transportErr = TRUE]
    /\ lastEvent' = Event("error", c, NoFrame)
    /\ UNCHANGED <<selectedWorkflowId, workflowResults, lastStepResultRef,
                   sent, uncaught, unloaded, runResults, msgCount>>

\* the beforeunload listener: closes the stored socket if it is OPEN
BeforeUnload ==
    /\ Idle
    /\ ~unloaded
    /\ unloaded' = TRUE
    /\ IF wsRef # NoSocket /\ readyState[wsRef] = "OPEN"
       THEN readyState' = [readyState EXCEPT ![wsRef] = "CLOSING"]
       ELSE readyState' = readyState
    /\ lastEvent' = Event("unload", wsRef, NoFrame)
    /\ UNCHANGED <<selectedWorkflowId, isWorkflowRunning, workflowResults,
                   currentStatus, lastStepResultRef, wsRef, sent, pendingClose,
                   uncaught, runResults, chanLog, msgCount>>

Next ==
    \/ \E id \in WorkflowIds : SelectWorkflow(id)
    \/ RunWorkflow
    \/ \E c \in Sockets : OnOpen(c)
    \/ \E c \in Sockets : \E raw \in WireFrames : OnMessage(c, raw)
    \/ \E c \in Sockets : OnClose(c)
    \/ \E c \in Sockets : OnError(c)
    \/ BeforeUnload

Spec == Init /\ [][Next]_vars

\* ---- properties ------------------------------------------------------------
IsPrefix(s, t) == Len(s) <= Len(t) /\ SubSeq(t, 1, Len(s)) = s

\* event ev is the dispatch of a well-formed frame of type t
IsMsg(ev, t) ==
    ev.kind = "message" /\ ev.frame.wellFormed /\ ev.frame.value.type = t

\* this step dispatches a well-formed frame of type t
MsgStep(t) == msgCount' = msgCount + 1 /\ IsMsg(lastEvent', t)

\* this step runs a callback of socket c
SocketStep(c) ==
    /\ lastEvent'.chan = c
    /\ lastEvent'.kind \in {"open", "message", "close", "error"}
    /\ \/ msgCount' # msgCount
       \/ readyState'[c] # readyState[c]
       \/ chanLog'[c] # chanLog[c]

\* the socket of the current run (the one constructed last), if any
Latest == Cardinality(Created)

\* socket c has delivered an error frame or a transport error
Failed(c) == chanLog[c].errorEv \/ chanLog[c].transportErr

\* C1 Chaining correctness: when a nextStep frame is processed after at least
\* one result frame of the run (whatever its result string, the empty string
\* included), exactly one stepInput is sent, on the socket that delivered the
\* nextStep, and its content is the result of the most recent result frame.
ChainingCorrectness ==
    [][(MsgStep("nextStep") /\ runResults # <<>>) =>
        sent' = [sent EXCEPT ![lastEvent'.chan] =
                    Append(@, StepInput(runResults[Len(runResults)].result))]
      ]_vars

\* C2 No chain without result: a nextStep frame processed before any result
\* frame of the run sends nothing and leaves the session state unchanged.
NoChainWithoutResult ==
    [][(MsgStep("nextStep") /\ runResults = <<>>) =>
        UNCHANGED <<sent, selectedWorkflowId, isWorkflowRunning,
                    workflowResults, currentStatus, lastStepResultRef, wsRef,
                    readyState, uncaught>>
      ]_vars

\* C2 witness: the first run received a result; in the second run a nextStep
\* frame was just processed before any result frame, and nothing was sent.
NextStepBeforeResultSeen ==
    /\ IsMsg(lastEvent, "nextStep")
    /\ lastEvent.chan = 2
    /\ chanLog[1].results > 0
    /\ chanLog[2].nextSteps > 0
    /\ runResults = <<>>
    /\ sent[2] = <<>>

\* C3 Result ordering and prefix growth: workflowResults is at every point the
\* sequence of the result frames processed since the run was started, in
\* arrival order (not sorted by step, duplicates kept), and between two run
\* starts it only grows at its end.
ResultOrderingAndPrefixGrowth ==
    /\ [](workflowResults = runResults)
    /\ [][lastEvent'.kind # "run" =>
            IsPrefix(workflowResults, workflowResults')]_vars

\* C3 witness: three results were accumulated with a step number going down
\* and one result frame twice.
OutOfOrderAndDuplicateResultsSeen ==
    /\ Len(workflowResults) = 3
    /\ workflowResults[1].step > workflowResults[2].step
    /\ workflowResults[2] = workflowResults[3]
    /\ workflowResults = runResults

\* the session is Errored or Completed: the socket of the current run has
\* delivered an error frame, a transport error or its close event
SessionTerminal ==
    Latest > 0 /\ (Failed(Latest) \/ chanLog[Latest].closeEv)

\* C4 Terminal monotonicity: once the session is Errored or Completed,
\* nothing is appended to workflowResults until a new run is started.
TerminalMonotonicity ==
    [][(SessionTerminal /\ lastEvent'.kind # "run") =>
        workflowResults' = workflowResults]_vars

\* C5 No commands after failure: once a socket has delivered an error frame
\* or a transport error, no stepInput is sent on it any more.
NoCommandsAfterFailure ==
    [][\A c \in Sockets : Failed(c) => sent'[c] = sent[c]]_vars

\* C6 Close resolution: the close event of a socket sets the finished status
\* if that socket delivered no error frame and no transport error before, and
\* otherwise leaves the error status in place.
CloseResolution ==
    [][\A c \in Sockets :
        (~chanLog[c].closeEv /\ chanLog'[c].closeEv) =>
            /\ ~isWorkflowRunning'
            /\ IF Failed(c) THEN currentStatus' = currentStatus
               ELSE currentStatus' = FinishedStatus
      ]_vars

\* C7 Idempotent restart: from the start of a run until the socket of that
\* run delivers its first result frame, workflowResults is empty and
\* lastStepResultRef is absent.
IdempotentRestart ==
    (Latest > 0 /\ chanLog[Latest].results = 0) =>
        (workflowResults = <<>> /\ lastStepResultRef = "")

\* C8 Single active channel: at most one socket is CONNECTING or OPEN.
SingleActiveChannel ==
    Cardinality({c \in Sockets : readyState[c] \in {"CONNECTING", "OPEN"}}) <= 1

\* C9 Stale-channel isolation: a callback of a socket that a later run has
\* replaced changes nothing of the session (results, last step output,
\* status, running flag, stored socket).
StaleChannelIsolation ==
    [][\A c \in Sockets :
        (c \in Created /\ c < Latest /\ SocketStep(c)) =>
            UNCHANGED sessionVars
      ]_vars

\* the status texts the panel uses for a failure
ErrorStatuses ==
    {ConnectionErrorStatus} \cup {ErrorStatus(m) : m \in ErrorMessages}

\* C10 Malformed frame handling: a frame that is no JSON leaves the session
\* not running with an error status, and no exception leaves the callback.
MalformedFrameHandling ==
    [][(msgCount' = msgCount + 1 /\ ~lastEvent'.frame.wellFormed) =>
        /\ ~uncaught'
        /\ ~isWorkflowRunning'
        /\ currentStatus' \in ErrorStatuses
      ]_vars

\* this step dispatches a well-formed frame whose type no branch knows
UnknownTypeStep ==
    /\ msgCount' = msgCount + 1
    /\ lastEvent'.frame.wellFormed
    /\ lastEvent'.frame.value.type \notin {"status", "result", "nextStep", "error"}

\* C11 Unknown type tolerance: a JSON frame whose type is none of status,
\* result, nextStep, error changes nothing of the session, sends nothing,
\* throws nothing and leaves every socket as it was, so later frames are
\* still processed.
UnknownTypeTolerance ==
    [][UnknownTypeStep =>
        UNCHANGED <<selectedWorkflowId, isWorkflowRunning, workflowResults,
                    currentStatus, lastStepResultRef, wsRef, sent, readyState,
                    uncaught, runResults, chanLog>>
      ]_vars

\* C11 witness: a frame of unknown type was just processed in a run that is
\* still running with a result accumulated, on a socket that is still open.
UnknownTypeSeen ==
    /\ lastEvent.kind = "message"
    /\ lastEvent.frame \in {[wellFormed |-> TRUE, value |-> o] : o \in UnknownFrames}
    /\ isWorkflowRunning
    /\ wsRef = lastEvent.chan
    /\ readyState[lastEvent.chan] = "OPEN"
    /\ Len(workflowResults) = 1
    /\ ~uncaught

\* C12 Re-enactable run control: whenever the session is Errored or Completed
\* (its socket delivered an error frame, a transport error or its close
\* event) and a workflow is selected, the Run button is enabled.  The
\* callbacks clear the running flag in the step that ends the run, so the
\* button is enabled from that very state on.
ReenactableRunControl ==
    (SessionTerminal /\ selectedWorkflowId # NoWorkflow) => RunEnabled

\* C12 witness: the socket of the run delivered an error frame, then a
\* transport error, then its close event, and the Run button is enabled.
RunEndedEveryWaySeen ==
    /\ Latest > 0
    /\ chanLog[Latest].errorEv
    /\ chanLog[Latest].transportErr
    /\ chanLog[Latest].closeEv
    /\ RunEnabled

\* sockets that are connecting or open
Active == {c \in Sockets : readyState[c] \in {"CONNECTING", "OPEN"}}

\* C13 Teardown closes the channel: when the page is unloaded while a socket
\* of a run is not closed (connecting, open, or open after an error frame),
\* it is closed: no socket is connecting or open once the beforeunload
\* listener has run.
TeardownClosesChannel ==
    [][(~unloaded /\ unloaded') => Active' = {}]_vars

StatusEventFrame ==
    [][MsgStep("status") =>
        /\ currentStatus' = lastEvent'.frame.value.message
        /\ UNCHANGED <<selectedWorkflowId, isWorkflowRunning, workflowResults,
                       lastStepResultRef, wsRef, sent, readyState, uncaught>>
      ]_vars

\* C15 witness: a status frame was just processed in a running session that
\* has a result; the status shows the frame's message.
StatusFrameWhileRunningSeen ==
    /\ IsMsg(lastEvent, "status")
    /\ currentStatus \in StatusMessages
    /\ isWorkflowRunning
    /\ wsRef = lastEvent.chan
    /\ readyState[lastEvent.chan] = "OPEN"
    /\ Len(workflowResults) = 1

\* C16 Stored handle: wsRef is absent or the socket constructed last, and it
\* is absent only if no socket was constructed or the socket constructed last
\* has delivered its close event or a transport error.
StoredHandleIsLatest ==
    /\ wsRef \in {NoSocket, Latest}
    /\ wsRef = NoSocket =>
        (Latest = 0 \/ chanLog[Latest].closeEv \/ chanLog[Latest].transportErr)

\* C17 Running flag: while the socket of the current run is connecting or
\* open and has delivered neither an error frame nor a transport error, the
\* running flag is set, so the Run button is disabled.
RunningWhileChannelActive ==
    (Latest > 0 /\ Latest \in Active /\ ~Failed(Latest)) =>
        (isWorkflowRunning /\ ~RunEnabled)

\* the result strings of the result frames processed since the run start
ResultsReceived == {runResults[i].result : i \in 1..Len(runResults)}

\* C18 Commands follow requests: a socket never has more stepInput commands
\* sent on it than nextStep frames delivered by it; a command is sent only
\* in the step that processes a nextStep frame, one at a time, on the socket
\* that delivered it, and its content is the result of a result frame
\* processed before.
CommandsFollowRequests ==
    /\ [](\A c \in Sockets : Len(sent[c]) <= chanLog[c].nextSteps)
    /\ [][sent' # sent =>
            /\ MsgStep("nextStep")
            /\ \E r \in ResultsReceived :
                sent' = [sent EXCEPT ![lastEvent'.chan] = Append(@, StepInput(r))]
         ]_vars

\* C18 witness: a socket delivered a nextStep before any result, which sent
\* nothing, then a result and a second nextStep, which sent that result.
DroppedAndServedNextStepSeen ==
    \E c \in Sockets :
        /\ chanLog[c].nextSteps = 2
        /\ chanLog[c].results = 1
        /\ Len(sent[c]) = 1
        /\ sent[c][1].content \in ResultsReceived

====
